---------------------------- MODULE Spec2Model ----------------------------
(***************************************************************************)
(* gpt-cli-tool (src/main.go): one invocation of the tool, from flag       *)
(* parsing to process exit.  main is a sequential program; it is cut into  *)
(* steps at the points where the environment answers: the parent-process   *)
(* lookup, the HTTP reply, the line read from standard input and the       *)
(* outcome of the child process.                                           *)
(***************************************************************************)
EXTENDS Integers, Sequences, FiniteSets, TLC

VARIABLES
    pc,                \* position of main
    exitCode,          \* exit status of the process, Running while it runs
    displayVersion,    \* flag -V                          (main.go:52,64)
    GOOS,              \* runtime.GOOS
    apiKey,            \* os.Getenv("OPENAI_API_KEY")       (main.go:124)
    pseudo,            \* the pseudo command text           (main.go:232-240)
    parentProcess,     \* what ps.FindProcess returned      (main.go:227)
    parentProcessName, \* parentProcess.Executable()        (main.go:228)
    called,            \* makeCommand has been entered      (main.go:251)
    body,              \* the reply document read from the oracle (main.go:176)
    command,           \* first result of makeCommand       (main.go:251)
    usage,             \* second result of makeCommand      (main.go:251)
    stdinLine,         \* the line of standard input Scanln consumed
    confirmation,      \* var confirmation string           (main.go:256)
    cmd,               \* the *exec.Cmd built by dispatch   (main.go:260)
    childResult,       \* how cmd.Run() ended               (main.go:289)
    httpSent,          \* number of client.Do calls         (main.go:169)
    launched,          \* number of cmd.Run calls           (main.go:289)
    failure,           \* the error the invocation reported, "none" if none
    out                \* what was printed, in order

vars == << pc, exitCode, displayVersion, GOOS, apiKey, pseudo, parentProcess,
           parentProcessName, called, body, command, usage, stdinLine,
           confirmation, cmd, childResult, httpSent, launched, failure, out >>

---------------------------------------------------------------------------
(* Bounds of the model. *)

\* longest line of confirmation input, in characters
MaxLine == 2
\* longest `choices` array of a reply
MaxChoices == 2

---------------------------------------------------------------------------
(* Values. *)

Running == -1

\* exit status of a Go program that ends in an unrecovered run-time panic
PanicExit == 2

Platforms == {"windows", "linux", "darwin"}

\* executable names the parent process may have
ShellNames == {"powershell.exe", "cmd.exe", "zsh", "bash", "fish", ""}

ApiKeys == {"", "sk-key"}

PseudoCommands == {"", "Find files larger than 42kB"}

\* characters of a line of input; " " is white space
Chars == {"y", "Y", "n", " "}


---------------------------------------------------------------------------
(* JSON documents, as the oracle may send them.  A document is a tagged    *)
(* record; an object carries a function from its keys to documents.        *)

JNull == [k |-> "null"]
JStr(s) == [k |-> "string", s |-> s]
JNum(n) == [k |-> "number", n |-> n]
JArr(q) == [k |-> "array", a |-> q]
JObj(f) == [k |-> "object", o |-> f]

NoFields == [x \in {} |-> JNull]

\* command texts a reply may carry
CommandStrings == {"", "find . -type f -size +42k"}

\* values of message.content
ContentDocs == {JStr(c) : c \in CommandStrings} \cup {JNum(7)}

\* values of choices[i].message
MessageDocs ==
    {JObj(NoFields), JStr("assistant")}
        \cup {JObj([content |-> c]) : c \in ContentDocs}

\* values of choices[i]
ChoiceDocs ==
    {JObj(NoFields), JNum(0)} \cup {JObj([message |-> m]) : m \in MessageDocs}

SeqsUpTo(S, n) == UNION {[1..i -> S] : i \in 0..n}

\* values of `choices`
ChoicesDocs ==
    {JNull, JStr("none")} \cup {JArr(q) : q \in SeqsUpTo(ChoiceDocs, MaxChoices)}

\* values of `usage`
UsageDocs ==
    {JStr("none"), JObj(NoFields), JObj([total_tokens |-> JNum(100)])}

\* values of `error`
ErrorDocs ==
    { JNull, JStr("rate limited"), JObj(NoFields),
      JObj([code |-> JStr("invalid_api_key"), message |-> JStr("Incorrect API key")]),
      JObj([code |-> JNull, message |-> JStr("overloaded")]) }

\* field sets of a reply object: each of error, choices, usage present or not
ReplyObjects ==
    { [key \in ks |-> CASE key = "error" -> e
                        [] key = "choices" -> c
                        [] key = "usage" -> u] :
        ks \in SUBSET {"error", "choices", "usage"},
        e \in ErrorDocs, c \in ChoicesDocs, u \in UsageDocs }

\* bodies of an HTTP response: bytes that are no JSON at all, or a document
Bodies ==
    {[valid |-> FALSE, doc |-> JNull]}
        \cup {[valid |-> TRUE, doc |-> d] : d \in {JNull, JArr(<<>>), JStr("ok")}}
        \cup {[valid |-> TRUE, doc |-> JObj(f)] : f \in ReplyObjects}

NoBody == [valid |-> FALSE, doc |-> JStr("no body read")]

---------------------------------------------------------------------------
(* Go values of type interface{} as encoding/json produces them.           *)

Nil == [k |-> "nil"]
GoString(s) == [k |-> "string", s |-> s]
GoFloat64(n) == [k |-> "float64", n |-> n]
GoSlice(q) == [k |-> "slice", a |-> q]
GoMap(f) == [k |-> "map", o |-> f]

\* a nil map[string]interface{}: every lookup misses
NilMap == [x \in {} |-> Nil]

\* json.Unmarshal into an interface{}: null -> nil, string -> string,
\* number -> float64, array -> []interface{}, object -> map[string]interface{}
RECURSIVE ToGo(_)
ToGo(d) ==
    CASE d.k = "null" -> Nil
      [] d.k = "string" -> GoString(d.s)
      [] d.k = "number" -> GoFloat64(d.n)
      [] d.k = "array" -> GoSlice([i \in DOMAIN d.a |-> ToGo(d.a[i])])
      [] d.k = "object" -> GoMap([key \in DOMAIN d.o |-> ToGo(d.o[key])])

\* var result map[string]interface{}; json.Unmarshal(body, &result) with the
\* returned error dropped: result stays nil unless the body is a JSON object
Unmarshal(b) ==
    IF b.valid /\ b.doc.k = "object" THEN ToGo(b.doc).o ELSE NilMap

\* m[key] on a map[string]interface{}: nil when the key is missing
Index(m, key) == IF key \in DOMAIN m THEN m[key] ELSE Nil

---------------------------------------------------------------------------
(* fmt.Scanln(&confirmation) on one line of input.  A line is a sequence   *)
(* of characters without its newline.                                      *)

Lines == SeqsUpTo(Chars, MaxLine)

IsSpace(c) == c = " "

\* (*ss).SkipSpace: drop the leading white space
RECURSIVE SkipSpace(_)
SkipSpace(line) ==
    IF line # <<>> /\ IsSpace(Head(line)) THEN SkipSpace(Tail(line)) ELSE line

\* (*ss).token(true, notSpace): the longest prefix without white space
RECURSIVE Token(_)
Token(line) ==
    IF line = <<>> \/ IsSpace(Head(line))
    THEN <<>>
    ELSE <<Head(line)>> \o Token(Tail(line))

\* The string Scanln leaves in its operand: the first white-space separated
\* word of the line.  On an empty or blank line Scanln fails and the operand
\* keeps its zero value ""; text after the first word makes Scanln return
\* "expected newline" after the operand was stored.  main drops the error.
Scanln(line) == Token(SkipSpace(line))

---------------------------------------------------------------------------
(* makeCommand, after the body was read (main.go:183-199).                 *)

Panic == [kind |-> "panic"]

\* Extract reading the last choice instead of the first
Extract_LastChoice(result) ==
    IF "error" \in DOMAIN result
    THEN LET errorDetails == result["error"] IN
         IF errorDetails.k # "map"
         THEN Panic
         ELSE [kind |-> "error",
               code |-> Index(errorDetails.o, "code"),
               message |-> Index(errorDetails.o, "message")]
    ELSE LET choices == Index(result, "choices") IN
         IF choices.k # "slice" THEN Panic
         ELSE IF Len(choices.a) = 0 THEN Panic
         ELSE LET lastChoice == choices.a[Len(choices.a)] IN
         IF lastChoice.k # "map" THEN Panic
         ELSE LET message == Index(lastChoice.o, "message") IN
         IF message.k # "map" THEN Panic
         ELSE LET content == Index(message.o, "content") IN
         IF content.k # "string" THEN Panic
         ELSE LET usageVal == Index(result, "usage") IN
         IF usageVal.k # "map" THEN Panic
         ELSE [kind |-> "ok", content |-> content.s, usage |-> usageVal.o]

\* A type assertion x.(T) on a value of another dynamic type, or on nil,
\* and an index past the end of a slice, are run-time panics.
Extract(result) ==
    IF "error" \in DOMAIN result
    THEN LET errorDetails == result["error"] IN
         IF errorDetails.k # "map"
         THEN Panic
         ELSE [kind |-> "error",
               code |-> Index(errorDetails.o, "code"),
               message |-> Index(errorDetails.o, "message")]
    ELSE LET choices == Index(result, "choices") IN
         IF choices.k # "slice" THEN Panic
         ELSE IF Len(choices.a) = 0 THEN Panic
         ELSE LET firstChoice == choices.a[1] IN
         IF firstChoice.k # "map" THEN Panic
         ELSE LET message == Index(firstChoice.o, "message") IN
         IF message.k # "map" THEN Panic
         ELSE LET content == Index(message.o, "content") IN
         IF content.k # "string" THEN Panic
         ELSE LET usageVal == Index(result, "usage") IN
         IF usageVal.k # "map" THEN Panic
         ELSE [kind |-> "ok", content |-> content.s, usage |-> usageVal.o]

---------------------------------------------------------------------------
(* Shell dispatch (main.go:263-284).                                       *)

NoCmd == <<>>

\* ShellLauncher without the switch on runtime.GOOS
ShellLauncher_AnyPlatform(goos, shell, text) ==
    CASE shell = "powershell.exe" -> <<"powershell.exe", "-c", text>>
      [] shell = "cmd.exe" -> <<"cmd.exe", "/C", text>>
      [] shell = "zsh" -> <<"zsh", "-c", text>>
      [] shell = "bash" -> <<"bash", "-c", text>>
      [] OTHER -> NoCmd

\* exec.Command(name, flag, command), or no launcher for the pair
ShellLauncher(goos, shell, text) ==
    IF goos = "windows"
    THEN CASE shell = "powershell.exe" -> <<"powershell.exe", "-c", text>>
           [] shell = "cmd.exe" -> <<"cmd.exe", "/C", text>>
           [] OTHER -> NoCmd
    ELSE CASE shell = "zsh" -> <<"zsh", "-c", text>>
           [] shell = "bash" -> <<"bash", "-c", text>>
           [] OTHER -> NoCmd

---------------------------------------------------------------------------
(* The invocation. *)

NotLooked == [looked |-> FALSE, nil |-> TRUE, exe |-> "", err |-> FALSE]

\* ps.FindProcess(pid): the process, or nil when none has that pid, or nil
\* and an error when the process table cannot be read
LookupResults ==
    {[looked |-> TRUE, nil |-> FALSE, exe |-> n, err |-> FALSE] : n \in ShellNames}
        \cup {[looked |-> TRUE, nil |-> TRUE, exe |-> "", err |-> e] : e \in BOOLEAN}

\* how cmd.Run() may end
ChildResults == {"exit 0", "start failed", "exit non-zero"}

Init ==
    /\ pc = "start"
    /\ exitCode = Running
    /\ displayVersion \in BOOLEAN
    /\ GOOS \in Platforms
    /\ apiKey \in ApiKeys
    /\ pseudo \in PseudoCommands
    /\ parentProcess = NotLooked
    /\ parentProcessName = ""
    /\ called = FALSE
    /\ body = NoBody
    /\ command = ""
    /\ usage = NilMap
    /\ stdinLine = <<>>
    /\ confirmation = <<>>
    /\ cmd = NoCmd
    /\ childResult = "none"
    /\ httpSent = 0
    /\ launched = 0
    /\ failure = "none"
    /\ out = <<>>

\* os.Exit(code), main returning (code 0), or the run-time ending the
\* process after a panic (code PanicExit)
Halt(code, why, printed) ==
    /\ pc' = "done"
    /\ exitCode' = code
    /\ failure' = why
    /\ out' = out \o printed

\* main.go:221-224
ShowVersion ==
    /\ pc = "start"
    /\ displayVersion
    /\ Halt(0, "none", <<[t |-> "version"]>>)
    /\ UNCHANGED << displayVersion, GOOS, apiKey, pseudo, parentProcess,
                    parentProcessName, called, body, command, usage, stdinLine,
                    confirmation, cmd, childResult, httpSent, launched >>

\* main.go:226-229.  parentProcess is an interface value; calling
\* Executable() on the nil interface is a run-time panic.
ResolveShell ==
    /\ pc = "start"
    /\ ~displayVersion
    /\ \E p \in LookupResults :
         /\ parentProcess' = p
         /\ IF p.nil
            THEN /\ Halt(PanicExit, "panic", <<[t |-> "panic"]>>)
                 /\ UNCHANGED parentProcessName
            ELSE /\ parentProcessName' = p.exe
                 /\ pc' = "args"
                 /\ UNCHANGED << exitCode, failure, out >>
    /\ UNCHANGED << displayVersion, GOOS, apiKey, pseudo, called, body,
                    command, usage, stdinLine, confirmation, cmd, childResult,
                    httpSent, launched >>

\* main.go:231-251: the pseudo command is what is left of the arguments;
\* without one the tool prints its usage and exits, with one it calls
\* makeCommand
CheckPseudo ==
    /\ pc = "args"
    /\ IF pseudo = ""
       THEN /\ Halt(1, "usage", <<[t |-> "example"]>>)
            /\ UNCHANGED called
       ELSE /\ pc' = "makeCommand"
            /\ called' = TRUE
            /\ UNCHANGED << exitCode, failure, out >>
    /\ UNCHANGED << displayVersion, GOOS, apiKey, pseudo, parentProcess,
                    parentProcessName, body, command, usage, stdinLine,
                    confirmation, cmd, childResult, httpSent, launched >>

\* CheckApiKey without the exit on an empty key
CheckApiKey_Unchecked ==
    /\ pc = "makeCommand"
    /\ pc' = "request"
    /\ out' = IF apiKey = "" THEN Append(out, [t |-> "apiKeyInfo"]) ELSE out
    /\ UNCHANGED << exitCode, failure >>
    /\ UNCHANGED << displayVersion, GOOS, apiKey, pseudo, parentProcess,
                    parentProcessName, called, body, command, usage, stdinLine,
                    confirmation, cmd, childResult, httpSent, launched >>

\* main.go:124-129
CheckApiKey ==
    /\ pc = "makeCommand"
    /\ IF apiKey = ""
       THEN Halt(1, "config", <<[t |-> "apiKeyInfo"]>>)
       ELSE /\ pc' = "request"
            /\ UNCHANGED << exitCode, failure, out >>
    /\ UNCHANGED << displayVersion, GOOS, apiKey, pseudo, parentProcess,
                    parentProcessName, called, body, command, usage, stdinLine,
                    confirmation, cmd, childResult, httpSent, launched >>

\* DoRequest sending the request again after a transport error
DoRequest_Retry ==
    /\ pc = "request"
    /\ httpSent' = httpSent + 1
    /\ \/ /\ failure' = "transport"
          /\ out' = Append(out, [t |-> "Error:"])
          /\ UNCHANGED << pc, exitCode, body >>
       \/ /\ Halt(1, "transport", <<[t |-> "Error reading response:"]>>)
          /\ UNCHANGED body
       \/ /\ body' \in Bodies
          /\ pc' = "decode"
          /\ UNCHANGED << exitCode, failure, out >>
    /\ UNCHANGED << displayVersion, GOOS, apiKey, pseudo, parentProcess,
                    parentProcessName, called, command, usage, stdinLine,
                    confirmation, cmd, childResult, launched >>

\* main.go:160-181: one client.Do; it fails (time-out, no connection), or
\* reading the body fails, or the body is read
DoRequest ==
    /\ pc = "request"
    /\ httpSent' = httpSent + 1
    /\ \/ /\ Halt(1, "transport", <<[t |-> "Error:"]>>)
          /\ UNCHANGED body
       \/ /\ Halt(1, "transport", <<[t |-> "Error reading response:"]>>)
          /\ UNCHANGED body
       \/ /\ body' \in Bodies
          /\ pc' = "decode"
          /\ UNCHANGED << exitCode, failure, out >>
    /\ UNCHANGED << displayVersion, GOOS, apiKey, pseudo, parentProcess,
                    parentProcessName, called, command, usage, stdinLine,
                    confirmation, cmd, childResult, launched >>

\* main.go:183-199
Decode ==
    /\ pc = "decode"
    /\ LET r == Extract(Unmarshal(body)) IN
         CASE r.kind = "error" ->
                /\ Halt(1, "oracle",
                        <<[t |-> "Error code", code |-> r.code, message |-> r.message]>>)
                /\ UNCHANGED << command, usage >>
           [] r.kind = "panic" ->
                /\ Halt(PanicExit, "panic", <<[t |-> "panic"]>>)
                /\ UNCHANGED << command, usage >>
           [] r.kind = "ok" ->
                /\ command' = r.content
                /\ usage' = r.usage
                /\ pc' = "display"
                /\ UNCHANGED << exitCode, failure, out >>
    /\ UNCHANGED << displayVersion, GOOS, apiKey, pseudo, parentProcess,
                    parentProcessName, called, body, stdinLine, confirmation,
                    cmd, childResult, httpSent, launched >>

\* main.go:252-257.  %.1f of a missing total_tokens prints a bad-verb text
\* and goes on; color.Cyan with no further argument prints the text as is.
Display ==
    /\ pc = "display"
    /\ out' = out \o << [t |-> "Looks insanely complicated?"],
                        [t |-> "total_tokens", v |-> Index(usage, "total_tokens")],
                        [t |-> "command", v |-> command],
                        [t |-> "Run? (y/n)"] >>
    /\ pc' = "confirm"
    /\ UNCHANGED << exitCode, displayVersion, GOOS, apiKey, pseudo,
                    parentProcess, parentProcessName, called, body, command,
                    usage, stdinLine, confirmation, cmd, childResult, httpSent,
                    launched, failure >>

\* main.go:258-262 and 292-294: without "y" main returns
ReadConfirmation ==
    /\ pc = "confirm"
    /\ \E line \in Lines :
         /\ stdinLine' = line
         /\ confirmation' = Scanln(line)
    /\ IF confirmation' = <<"y">>
       THEN /\ pc' = "dispatch"
            /\ UNCHANGED << exitCode, failure, out >>
       ELSE Halt(0, "none", <<>>)
    /\ UNCHANGED << displayVersion, GOOS, apiKey, pseudo, parentProcess,
                    parentProcessName, called, body, command, usage, cmd,
                    childResult, httpSent, launched >>

\* main.go:263-284
Dispatch ==
    /\ pc = "dispatch"
    /\ LET c == ShellLauncher(GOOS, parentProcessName, command) IN
         IF c = NoCmd
         THEN /\ Halt(1, "unsupported",
                      <<[t |-> "unsupported shell", shell |-> parentProcessName,
                         platform |-> GOOS]>>)
              /\ UNCHANGED cmd
         ELSE /\ cmd' = c
              /\ pc' = "run"
              /\ UNCHANGED << exitCode, failure, out >>
    /\ UNCHANGED << displayVersion, GOOS, apiKey, pseudo, parentProcess,
                    parentProcessName, called, body, command, usage, stdinLine,
                    confirmation, childResult, httpSent, launched >>

\* Run ending the tool with status 1 when the child failed
Run_PropagateFailure ==
    /\ pc = "run"
    /\ launched' = launched + 1
    /\ \E r \in ChildResults :
         /\ childResult' = r
         /\ IF r = "exit 0"
            THEN Halt(0, "none", <<>>)
            ELSE Halt(1, "child", <<[t |-> "Error: ", err |-> r]>>)
    /\ UNCHANGED << displayVersion, GOOS, apiKey, pseudo, parentProcess,
                    parentProcessName, called, body, command, usage, stdinLine,
                    confirmation, cmd, httpSent >>

\* main.go:286-294: cmd.Run() and the return of main
Run ==
    /\ pc = "run"
    /\ launched' = launched + 1
    /\ \E r \in ChildResults :
         /\ childResult' = r
         /\ IF r = "exit 0"
            THEN Halt(0, "none", <<>>)
            ELSE Halt(0, "child", <<[t |-> "Error: ", err |-> r]>>)
    /\ UNCHANGED << displayVersion, GOOS, apiKey, pseudo, parentProcess,
                    parentProcessName, called, body, command, usage, stdinLine,
                    confirmation, cmd, httpSent >>

Next ==
    \/ ShowVersion
    \/ ResolveShell
    \/ CheckPseudo
    \/ CheckApiKey
    \/ DoRequest
    \/ Decode
    \/ Display
    \/ ReadConfirmation
    \/ Dispatch
    \/ Run

Spec == Init /\ [][Next]_vars

---------------------------------------------------------------------------
(* Vocabulary of the claims.  The shape of a reply is read off the         *)
(* document itself, not off what makeCommand made of it.                   *)

Printed(tag) == \E i \in DOMAIN out : out[i].t = tag

LastPrinted(tag) == out # <<>> /\ out[Len(out)].t = tag

\* the confirmation prompt was printed
Prompted == Printed("Run? (y/n)")

\* makeCommand has returned to main
Returned == pc \in {"display", "confirm", "dispatch", "run"} \/ Prompted

\* a line of confirmation input was read
LineRead == pc \in {"dispatch", "run"} \/ (pc = "done" /\ Prompted)

\* a reply body was read
Replied == body # NoBody

IsObject(d) == d.k = "object"

Has(d, key) == IsObject(d) /\ key \in DOMAIN d.o

HasErrorKey(b) == b.valid /\ Has(b.doc, "error")

WellFormedReply(b) ==
    /\ b.valid
    /\ IsObject(b.doc)
    /\ ~Has(b.doc, "error")
    /\ Has(b.doc, "choices")
    /\ b.doc.o["choices"].k = "array"
    /\ Len(b.doc.o["choices"].a) > 0
    /\ Has(b.doc.o["choices"].a[1], "message")
    /\ Has(b.doc.o["choices"].a[1].o["message"], "content")
    /\ b.doc.o["choices"].a[1].o["message"].o["content"].k = "string"
    /\ Has(b.doc, "usage")
    /\ Has(b.doc.o["usage"], "total_tokens")
    /\ b.doc.o["usage"].o["total_tokens"].k = "number"

ReplyContent(b) == b.doc.o["choices"].a[1].o["message"].o["content"].s

ReplyTotalTokens(b) == b.doc.o["usage"].o["total_tokens"].n

\* dispatch has acted on a confirmed run
Dispatched == confirmation = <<"y">> /\ pc \in {"run", "done"}

ChildFailed == childResult \in {"start failed", "exit non-zero"}

---------------------------------------------------------------------------
(* The claims. *)

\* C1: for every line of confirmation input other than exactly "y" no
\* subprocess is launched and the process ends with exit status 0; only the
\* line "y" leads to a launch.
C1_OnlyExactLineRuns ==
    /\ launched > 0 => stdinLine = <<"y">>
    /\ (pc = "done" /\ LineRead /\ stdinLine # <<"y">>)
           => (exitCode = 0 /\ launched = 0)

\* C2: after a confirmed run, the pairs (windows, powershell.exe),
\* (windows, cmd.exe), (not windows, zsh), (not windows, bash) launch
\* `powershell.exe -c`, `cmd.exe /C`, `zsh -c`, `bash -c` with the command
\* as one argument; every other pair launches nothing and ends with exit
\* status 1 after reporting the platform and the shell name.
C2_DispatchTable ==
    Dispatched =>
        LET launch(name, flag) ==
                /\ cmd = <<name, flag, command>>
                /\ (pc = "done" => launched = 1)
        IN  CASE GOOS = "windows" /\ parentProcessName = "powershell.exe" ->
                   launch("powershell.exe", "-c")
              [] GOOS = "windows" /\ parentProcessName = "cmd.exe" ->
                   launch("cmd.exe", "/C")
              [] GOOS # "windows" /\ parentProcessName = "zsh" ->
                   launch("zsh", "-c")
              [] GOOS # "windows" /\ parentProcessName = "bash" ->
                   launch("bash", "-c")
              [] OTHER ->
                   /\ cmd = NoCmd
                   /\ launched = 0
                   /\ pc = "done"
                   /\ exitCode = 1
                   /\ LastPrinted("unsupported shell")
                   /\ out[Len(out)].shell = parentProcessName
                   /\ out[Len(out)].platform = GOOS

C2_Witness ==
    /\ Dispatched
    /\ pc = "done"
    /\ GOOS = "windows"
    /\ parentProcessName = "cmd.exe"
    /\ cmd = <<"cmd.exe", "/C", command>>
    /\ launched = 1

\* C3: a reply without an `error` key that lacks an expected field (or is
\* no JSON) ends the invocation with exit status 1; the prompt is never
\* reached, makeCommand returns nothing and no subprocess is launched.
C3_MissingFieldExits1 ==
    (Replied /\ ~HasErrorKey(body) /\ ~WellFormedReply(body)) =>
        /\ ~Returned
        /\ launched = 0
        /\ (pc = "done" => exitCode = 1)

\* C4: whenever the confirmation prompt is reached the command is
\* non-empty; an empty content never leads to the prompt or to a launch.
C4_PromptedCommandNonEmpty ==
    (Prompted \/ launched > 0) => command # ""

\* C5: a reply with an `error` key, whatever the shape of its value, ends
\* the invocation with exit status 1 after the error's code and message
\* were reported; makeCommand returns nothing, the prompt is not reached
\* and no subprocess is launched.
C5_ErrorKeyExits1 ==
    HasErrorKey(body) =>
        /\ ~Returned
        /\ launched = 0
        /\ (pc = "done" => (exitCode = 1 /\ LastPrinted("Error code")))

\* C6: for a well-formed reply without `error`, makeCommand returns exactly
\* choices[0].message.content and a usage whose total_tokens is the
\* reply's; main displays these and, once confirmed, hands the command
\* unmodified to the launcher.
C6_ExtractExact ==
    (WellFormedReply(body) /\ pc # "decode") =>
        /\ failure \notin {"panic", "oracle"}
        /\ command = ReplyContent(body)
        /\ "total_tokens" \in DOMAIN usage
        /\ usage["total_tokens"] = GoFloat64(ReplyTotalTokens(body))
        /\ pc # "display" =>
              /\ Prompted
              /\ \E i \in DOMAIN out :
                    /\ out[i].t = "total_tokens"
                    /\ out[i].v = GoFloat64(ReplyTotalTokens(body))
              /\ \E i \in DOMAIN out :
                    /\ out[i].t = "command"
                    /\ out[i].v = ReplyContent(body)
        /\ cmd # NoCmd => (Len(cmd) = 3 /\ cmd[3] = ReplyContent(body))

C6_Witness ==
    /\ WellFormedReply(body)
    /\ Len(body.doc.o["choices"].a) = 2
    /\ ReplyContent(body) # ""
    /\ pc = "done"
    /\ launched = 1
    /\ cmd[3] = ReplyContent(body)

\* C7: with an empty OPENAI_API_KEY no HTTP request is ever sent, and an
\* invocation that gets as far as asking for the translation (it enters
\* makeCommand) ends with exit status 1 after the remediation text.
C7_NoKeyNoRequest ==
    apiKey = "" =>
        /\ httpSent = 0
        /\ ~Replied
        /\ (called /\ pc = "done") =>
              (exitCode = 1 /\ failure = "config" /\ LastPrinted("apiKeyInfo"))
        /\ called => pc \in {"makeCommand", "done"}

C7_Witness ==
    /\ apiKey = ""
    /\ called
    /\ pc = "done"
    /\ exitCode = 1
    /\ httpSent = 0

\* C8: shell context resolution never fails: whatever the parent-process
\* lookup returns, main holds a shell name and goes on to the translation
\* step; an invocation with a pseudo command is not ended before it.
C8_ResolveNeverFails ==
    (parentProcess.looked /\ pseudo # "") => (pc # "done" \/ called)

\* C9: at most one oracle request is sent and at most one subprocess is
\* launched, and once a failure was reported neither happens again.
C9_AtMostOnce ==
    [][ /\ httpSent' <= 1
        /\ launched' <= 1
        /\ failure # "none" => (httpSent' = httpSent /\ launched' = launched)
      ]_vars

C9_Witness ==
    /\ failure = "transport"
    /\ httpSent = 1
    /\ launched = 0
    /\ pc = "done"

\* C10: after a confirmed run on a supported pair, a child that fails to
\* start or exits non-zero is reported and the tool still ends with exit
\* status 0.
C10_ChildFailureExit0 ==
    (pc = "done" /\ ChildFailed) =>
        /\ exitCode = 0
        /\ launched = 1
        /\ LastPrinted("Error: ")
        /\ out[Len(out)].err = childResult

C10_Witness ==
    /\ pc = "done"
    /\ childResult = "exit non-zero"
    /\ cmd # NoCmd
    /\ exitCode = 0

===========================================================================
